---- MODULE Spec2Model ----
(***************************************************************************)
(* Model of the historical metrics store and the sync orchestrator of the  *)
(* YouTube analytics tool (src/youtube_analytics_db.py).                   *)
(*                                                                         *)
(* The SQLite file is two tables.  A table is a bag of rows: the rowid /   *)
(* AUTOINCREMENT id makes every stored row distinct, and the bag keeps     *)
(* the number of rows that carry the same column values.  Dates travel as  *)
(* Python date objects (day ordinals here) and are stored and sent to the  *)
(* provider as ISO text 'YYYY-MM-DD' (<<year, month, day>> here).          *)
(***************************************************************************)
EXTENDS Integers, Sequences, FiniteSets, Bags, TLC

VARIABLES
    videos,     \* table videos
    metrics,    \* table daily_metrics
    today,      \* date.today()
    connections, \* the connections to the SQLite file that are open
    calls,      \* history: the number of calls made so far
    lastWrite,  \* history: the views last handed to the store for each key
    lastOp      \* history: the last call, its arguments and what it returned

vars == <<videos, metrics, today, connections, calls, lastWrite, lastOp>>

(***************************************************************************)
(* Bounds of the model.                                                    *)
(***************************************************************************)
\* ordinal (days since 2024-01-01) of the first calendar date of the model
FirstDate == 30
\* distance from FirstDate to the last calendar date of the model
LastOffset == 7
\* calls of one run
MaxCalls == 2
\* rows of daily_metrics in the store states that a single call starts from
MaxRows == 2

VideoIds == {"A", "B"}
Titles == {"T1", "T2"}
ChannelIds == {"UC1"}
\* case matters: 'browse' is not 'BROWSE'
Sources == {"BROWSE", "browse"}
ViewCounts == {1, 2}
\* three calendar dates: two neighbours and one a week away, so that the
\* differences of two dates are -7, -6, -1, 0, 1, 6 and 7
Day1 == FirstDate
Day2 == FirstDate + 1
Day8 == FirstDate + LastOffset
Dates == {Day1, Day2, Day8}
\* days_since_published values a caller of the store may hand in
DspInputs == {-1, 0, 6, 7}
DaysBackInputs == {0, 60}

(***************************************************************************)
(* Calendar: date <-> 'YYYY-MM-DD'.                                        *)
(***************************************************************************)
DaysInMonth(m) ==
    IF m = 2 THEN 29 ELSE IF m \in {4, 6, 9, 11} THEN 30 ELSE 31

RECURSIVE MonthDay(_, _)
MonthDay(m, n) ==
    IF n < DaysInMonth(m) THEN <<m, n + 1>> ELSE MonthDay(m + 1, n - DaysInMonth(m))

\* date.isoformat() / strftime('%Y-%m-%d'): the text of a date
IsoFormat(d) == <<2024, MonthDay(1, d)[1], MonthDay(1, d)[2]>>

RECURSIVE DaysBefore(_)
DaysBefore(m) == IF m = 1 THEN 0 ELSE DaysBefore(m - 1) + DaysInMonth(m - 1)

\* datetime.strptime(s, '%Y-%m-%d').date(): the date of a text
ParseIso(s) == DaysBefore(s[2]) + s[3] - 1

\* comparison of two date texts as SQLite compares TEXT (memcmp)
TextLess(s, t) ==
    \/ s[1] < t[1]
    \/ s[1] = t[1] /\ s[2] < t[2]
    \/ s[1] = t[1] /\ s[2] = t[2] /\ s[3] < t[3]

\* max() of two dates
Max(a, b) == IF a >= b THEN a ELSE b

(***************************************************************************)
(* Records.                                                                *)
(***************************************************************************)
\* the dataclass VideoInfo (published_date is a date)
VideoInfo == [video_id : VideoIds, title : Titles, published_date : Dates,
              channel_id : ChannelIds]

\* the DailyMetric objects a caller of the store may hand in (date is a date)
DailyMetricInputs == [video_id : VideoIds, date : Dates,
                days_since_published : DspInputs,
                traffic_source : Sources, views : ViewCounts]

\* a row of table videos, as stored
VideoRow(v) == [video_id |-> v.video_id, title |-> v.title,
                published_date |-> IsoFormat(v.published_date),
                channel_id |-> v.channel_id]

\* a row of table daily_metrics, as stored
MetricRow(m) == [video_id |-> m.video_id, date |-> IsoFormat(m.date),
                 days_since_published |-> m.days_since_published,
                 traffic_source |-> m.traffic_source, views |-> m.views]

(***************************************************************************)
(* Tables.                                                                 *)
(***************************************************************************)
Rows(tbl) == BagToSet(tbl)

\* the rows of tbl outside the set gone
Without(tbl, gone) == [r \in (DOMAIN tbl) \ gone |-> tbl[r]]

\* mutant: a second UNIQUE constraint, on channel_id
VideoConflictsByChannel(tbl, row) ==
    {r \in Rows(tbl) : r.video_id = row.video_id \/ r.channel_id = row.channel_id}

\* PRIMARY KEY video_id
VideoConflicts(tbl, row) == {r \in Rows(tbl) : r.video_id = row.video_id}

\* mutant: the table has no UNIQUE constraint
NoConflicts(tbl, row) == {}

\* mutant: UNIQUE(video_id)
MetricConflictsByVideo(tbl, row) == {r \in Rows(tbl) : r.video_id = row.video_id}

\* UNIQUE(video_id, date, traffic_source)
MetricConflicts(tbl, row) ==
    {r \in Rows(tbl) : /\ r.video_id = row.video_id
                       /\ r.date = row.date
                       /\ r.traffic_source = row.traffic_source}

\* mutant: the published_date of the new row is written to every row
StoreVideoInfoAllRows(tbl, video) ==
    SetToBag({[r EXCEPT !.published_date = IsoFormat(video.published_date)] :
                 r \in Rows(Without(tbl, VideoConflicts(tbl, VideoRow(video))))})
    (+) SetToBag({VideoRow(video)})

\* mutant: a plain INSERT into a table without the PRIMARY KEY
StoreVideoInfoAppend(tbl, video) == tbl (+) SetToBag({VideoRow(video)})

\* mutant: INSERT OR IGNORE INTO videos, which keeps the row already there
StoreVideoInfoIgnore(tbl, video) ==
    IF VideoConflicts(tbl, VideoRow(video)) # {} THEN tbl
    ELSE tbl (+) SetToBag({VideoRow(video)})

\* INSERT OR REPLACE INTO videos: the conflicting rows go, the row is added
StoreVideoInfo(tbl, video) ==
    Without(tbl, VideoConflicts(tbl, VideoRow(video))) (+) SetToBag({VideoRow(video)})

\* mutant: store_video_info recomputes days_since_published of the rows of
\* the video against the published_date it stores
MetricsRecomputed(mtbl, video) ==
    SetToBag({IF r.video_id = video.video_id
              THEN [r EXCEPT !.days_since_published =
                                ParseIso(r.date) - video.published_date]
              ELSE r : r \in Rows(mtbl)})

\* table daily_metrics after store_video_info: its one statement writes
\* table videos, there is no trigger, and the foreign key is not enforced
MetricsAfterStoreVideoInfo(mtbl, video) == mtbl

\* mutant: a plain INSERT into a table that lets the duplicate in
InsertMetric(tbl, metric) == tbl (+) SetToBag({MetricRow(metric)})

\* INSERT OR REPLACE INTO daily_metrics, one row
InsertOrReplaceMetric(tbl, metric) ==
    Without(tbl, MetricConflicts(tbl, MetricRow(metric))) (+) SetToBag({MetricRow(metric)})

\* store_daily_metrics: the rows of the list in order, then one commit
RECURSIVE StoreDailyMetrics(_, _)
StoreDailyMetrics(tbl, ms) ==
    IF ms = <<>> THEN tbl
    ELSE StoreDailyMetrics(InsertOrReplaceMetric(tbl, Head(ms)), Tail(ms))

\* FOREIGN KEY (video_id) REFERENCES videos (video_id)
ForeignKeyHolds(vtbl, metric) ==
    \E v \in Rows(vtbl) : v.video_id = metric.video_id

\* mutant: the connection runs PRAGMA foreign_keys = ON
ForeignKeysOn == TRUE

\* sqlite3.connect() issues no PRAGMA foreign_keys = ON, and SQLite checks
\* foreign keys only under that pragma
ForeignKeysEnforced == FALSE

\* store_daily_metrics as its caller sees it: the table after the call and
\* whether a statement raised (nothing is committed then)
StoreDailyMetricsCall(vtbl, tbl, ms) ==
    IF ForeignKeysEnforced /\ \E i \in 1..Len(ms) : ~ForeignKeyHolds(vtbl, ms[i])
    THEN [tbl |-> tbl, raised |-> TRUE]
    ELSE [tbl |-> StoreDailyMetrics(tbl, ms), raised |-> FALSE]

(***************************************************************************)
(* analyze_first_week_performance.                                         *)
(***************************************************************************)
FirstWeekLo == 0
FirstWeekHi == 6

\* mutant: BETWEEN 0 AND 7
InFirstEightDays(dsp) == FirstWeekLo <= dsp /\ dsp <= FirstWeekHi + 1

\* dm.days_since_published BETWEEN 0 AND 6
InFirstWeek(dsp) == FirstWeekLo <= dsp /\ dsp <= FirstWeekHi

\* dm.traffic_source = ? under SQLite's BINARY collation
SourceMatches(stored, asked) == stored = asked

\* the dm columns of a joined row that found no daily_metrics row: all NULL
NullMetric == [video_id |-> "", date |-> <<0, 0, 0>>, days_since_published |-> 0,
               traffic_source |-> "", views |-> 0]

\* videos v LEFT JOIN daily_metrics dm ON v.video_id = dm.video_id
LeftJoin(vtbl, mtbl) ==
    {[v |-> p[1], dm |-> p[2], matched |-> TRUE] :
        p \in {q \in Rows(vtbl) \X Rows(mtbl) : q[1].video_id = q[2].video_id}}
    \cup {[v |-> v, dm |-> NullMetric, matched |-> FALSE] :
        v \in {w \in Rows(vtbl) : \A dm \in Rows(mtbl) : dm.video_id # w.video_id}}

\* mutant: the dm conditions let the NULL row of a LEFT JOIN through
WhereKeepsNull(p, video_id, traffic_source) ==
    /\ p.v.video_id = video_id
    /\ \/ ~p.matched
       \/ /\ InFirstWeek(p.dm.days_since_published)
          /\ SourceMatches(p.dm.traffic_source, traffic_source)

\* WHERE v.video_id = ? AND dm.days_since_published BETWEEN 0 AND 6
\*   AND dm.traffic_source = ?   (a comparison with NULL is not true)
WhereClause(p, video_id, traffic_source) ==
    /\ p.v.video_id = video_id
    /\ p.matched
    /\ InFirstWeek(p.dm.days_since_published)
    /\ SourceMatches(p.dm.traffic_source, traffic_source)

\* the joined rows that pass the WHERE clause for one video_id
FirstWeekJoin(vtbl, mtbl, video_id, traffic_source) ==
    {p \in LeftJoin(vtbl, mtbl) : WhereClause(p, video_id, traffic_source)}

\* SUM(dm.views) over joined rows, each as often as it is stored; NULL
\* (here -1) when no row of the group has a view count
RECURSIVE SumRows(_, _, _)
SumRows(vtbl, mtbl, joined) ==
    IF joined = {} THEN 0
    ELSE LET p == CHOOSE q \in joined : TRUE
         IN  p.dm.views * vtbl[p.v] * mtbl[p.dm]
             + SumRows(vtbl, mtbl, joined \ {p})

SumViews(vtbl, mtbl, joined) ==
    IF \A p \in joined : ~p.matched THEN -1
    ELSE SumRows(vtbl, mtbl, {p \in joined : p.matched})

\* total_views or 0
OrZero(total_views) == IF total_views = -1 THEN 0 ELSE total_views

\* the loop over video_ids: a video whose query returns no row is skipped
RECURSIVE AnalyzeLoop(_, _, _, _, _)
AnalyzeLoop(vtbl, mtbl, ids, traffic_source, results) ==
    IF ids = <<>> THEN results
    ELSE LET video_id == Head(ids)
             joined == FirstWeekJoin(vtbl, mtbl, video_id, traffic_source)
             v == (CHOOSE p \in joined : TRUE).v
             entry == [title |-> v.title,
                       published_date |-> v.published_date,
                       first_week_views |->
                           OrZero(SumViews(vtbl, mtbl, joined))]
             next == IF joined = {} THEN results
                     ELSE [x \in (DOMAIN results) \cup {video_id} |->
                              IF x = video_id THEN entry ELSE results[x]]
         IN  AnalyzeLoop(vtbl, mtbl, Tail(ids), traffic_source, next)

EmptyResults == [x \in {} |-> 0]

AnalyzeFirstWeekPerformance(vtbl, mtbl, ids, traffic_source) ==
    AnalyzeLoop(vtbl, mtbl, ids, traffic_source, EmptyResults)

(***************************************************************************)
(* get_recent_videos.                                                      *)
(***************************************************************************)
\* mutant: ORDER BY published_date ASC
OrderByPublishedAsc(r, q) == ~TextLess(q.published_date, r.published_date)

\* ORDER BY published_date DESC: row r may come before row q
OrderByPublishedDesc(r, q) == ~TextLess(r.published_date, q.published_date)

\* the orders in which SELECT ... ORDER BY may return the rows of videos;
\* SQLite leaves the order of rows with equal published_date open
OrderedSelects(vtbl) ==
    LET rows == Rows(vtbl)
        n == Cardinality(rows)
    IN  {f \in [1..n -> rows] :
            /\ \A i, j \in 1..n : i # j => f[i] # f[j]
            /\ \A i, j \in 1..n : i < j => OrderByPublishedDesc(f[i], f[j])}

\* mutant: one row more than the limit
LimitOneMore(rows, limit) ==
    IF limit < 0 \/ limit + 1 >= Len(rows) THEN rows
    ELSE SubSeq(rows, 1, limit + 1)

\* LIMIT ?: a negative limit is no limit in SQLite
Limit(rows, limit) ==
    IF limit < 0 \/ limit >= Len(rows) THEN rows
    ELSE SubSeq(rows, 1, limit)

\* get_recent_videos(limit): the lists of video_ids the call may return
GetRecentVideos(vtbl, limit) ==
    {[i \in 1..Len(Limit(f, limit)) |-> Limit(f, limit)[i].video_id] :
        f \in OrderedSelects(vtbl)}

(***************************************************************************)
(* The providers, as sync_video sees them.                                 *)
(***************************************************************************)
\* what videos().list(...).execute() comes to: no client, an exception, no
\* items, or one item with its snippet (publishedAt already a date)
MetaFailures == {"no_client", "error", "no_items"}

\* the analytics provider holds rows [day, traffic_source, views] for a video,
\* one view count per day and traffic source
SameCell(r, q) == r.day = q.day /\ r.traffic_source = q.traffic_source

\* sort='day,-views': the first row of a set of provider rows
FirstRow(rows) ==
    CHOOSE r \in rows : \A q \in rows :
        \/ r.day < q.day
        \/ r.day = q.day /\ r.views >= q.views

RECURSIVE SortedRows(_)
SortedRows(rows) ==
    IF rows = {} THEN <<>>
    ELSE <<FirstRow(rows)>> \o SortedRows(rows \ {FirstRow(rows)})

\* reports().query(startDate, endDate, ...).execute(): the rows of the days
\* from startDate to endDate, each day as text
ProviderQuery(data, startDate, endDate) ==
    LET inside == {r \in data : /\ ParseIso(startDate) <= r.day
                                /\ r.day <= ParseIso(endDate)}
        sorted == SortedRows(inside)
    IN  [i \in 1..Len(sorted) |->
            <<IsoFormat(sorted[i].day), sorted[i].traffic_source, sorted[i].views>>]

(***************************************************************************)
(* fetch_video_data_from_youtube, fetch_daily_analytics_from_youtube,      *)
(* sync_video.                                                             *)
(***************************************************************************)
NoVideo == [status |-> "none"]

\* mutant: a VideoInfo of defaults instead of None
FetchVideoDataDefault(video_id, meta) ==
    IF meta.status # "ok"
    THEN [status |-> "ok", video_id |-> video_id, title |-> "T2",
          published_date |-> FirstDate, channel_id |-> "UC1"]
    ELSE [status |-> "ok", video_id |-> video_id, title |-> meta.title,
          published_date |-> meta.published_date, channel_id |-> meta.channel_id]

\* None, or the VideoInfo built from the snippet
FetchVideoData(video_id, meta) ==
    IF meta.status # "ok" THEN NoVideo
    ELSE [status |-> "ok", video_id |-> video_id, title |-> meta.title,
          published_date |-> meta.published_date, channel_id |-> meta.channel_id]

\* mutant: the publish day counted as day 1
DaysSincePublishedFromOne(day, published_date) == day - published_date + 1

\* days_since_published = (day - published_date).days
DaysSincePublished(day, published_date) == day - published_date

\* the published_date the analytics fetch reads back from table videos
StoredPublishedDate(vtbl, video_id) ==
    ParseIso((CHOOSE r \in Rows(vtbl) : r.video_id = video_id).published_date)

\* the DailyMetric list, and whether the provider was queried
FetchDailyAnalytics(vtbl, video_id, start_date, end_date, analytics) ==
    IF analytics.status = "no_client"
    THEN [metrics |-> <<>>, queried |-> FALSE]
    ELSE IF ~\E r \in Rows(vtbl) : r.video_id = video_id
    THEN [metrics |-> <<>>, queried |-> FALSE]
    ELSE IF analytics.status = "error"
    THEN [metrics |-> <<>>, queried |-> TRUE]
    ELSE LET published_date == StoredPublishedDate(vtbl, video_id)
             rows == ProviderQuery(analytics.data, IsoFormat(start_date),
                                   IsoFormat(end_date))
         IN  [metrics |->
                 [i \in 1..Len(rows) |->
                     [video_id |-> video_id,
                      date |-> ParseIso(rows[i][1]),
                      days_since_published |->
                          DaysSincePublished(ParseIso(rows[i][1]), published_date),
                      traffic_source |-> rows[i][2],
                      views |-> rows[i][3]]],
              queried |-> TRUE]

\* mutant: the window starts days_back days ago, whatever the publish date
StartDateNoClamp(published_date, end_date, days_back) == end_date - days_back

\* mutant: min for max
StartDateMin(published_date, end_date, days_back) ==
    IF published_date <= end_date - days_back THEN published_date
    ELSE end_date - days_back

\* start_date = max(video_info.published_date, end_date - timedelta(days_back))
StartDate(published_date, end_date, days_back) ==
    Max(published_date, end_date - days_back)

\* mutant: a sync that got no daily metrics returns False
SyncVideoNeedsRows(vtbl, mtbl, now, video_id, days_back, meta, analytics) ==
    LET video_info == FetchVideoData(video_id, meta)
    IN  IF video_info.status # "ok"
        THEN [videos |-> vtbl, metrics |-> mtbl, ret |-> FALSE,
              fetched |-> FALSE, queried |-> FALSE, published_date |-> now,
              start_date |-> now, end_date |-> now, written |-> <<>>]
        ELSE LET v1 == StoreVideoInfo(vtbl, video_info)
                 m0 == MetricsAfterStoreVideoInfo(mtbl, video_info)
                 end_date == now
                 start_date == StartDate(video_info.published_date, end_date,
                                         days_back)
                 fetch == FetchDailyAnalytics(v1, video_id, start_date,
                                              end_date, analytics)
                 m1 == IF fetch.metrics # <<>>
                       THEN StoreDailyMetricsCall(v1, m0, fetch.metrics).tbl
                       ELSE m0
             IN  [videos |-> v1, metrics |-> m1, ret |-> fetch.metrics # <<>>,
                  fetched |-> TRUE, queried |-> fetch.queried,
                  published_date |-> video_info.published_date,
                  start_date |-> start_date, end_date |-> end_date,
                  written |-> fetch.metrics]

\* sync_video: the tables after the call, the value returned, and what the
\* call did on the way
SyncVideo(vtbl, mtbl, now, video_id, days_back, meta, analytics) ==
    LET video_info == FetchVideoData(video_id, meta)
    IN  IF video_info.status # "ok"
        THEN [videos |-> vtbl, metrics |-> mtbl, ret |-> FALSE,
              fetched |-> FALSE, queried |-> FALSE, published_date |-> now,
              start_date |-> now, end_date |-> now, written |-> <<>>]
        ELSE LET v1 == StoreVideoInfo(vtbl, video_info)
                 m0 == MetricsAfterStoreVideoInfo(mtbl, video_info)
                 end_date == now
                 start_date == StartDate(video_info.published_date, end_date,
                                         days_back)
                 fetch == FetchDailyAnalytics(v1, video_id, start_date,
                                              end_date, analytics)
                 m1 == IF fetch.metrics # <<>>
                       THEN StoreDailyMetricsCall(v1, m0, fetch.metrics).tbl
                       ELSE m0
             IN  [videos |-> v1, metrics |-> m1, ret |-> TRUE,
                  fetched |-> TRUE, queried |-> fetch.queried,
                  published_date |-> video_info.published_date,
                  start_date |-> start_date, end_date |-> end_date,
                  written |-> fetch.metrics]

(***************************************************************************)
(* main --sync recent: sync_video for every video of the channel report.   *)
(***************************************************************************)
\* db.sync_video(video_id, days_back=60)
SyncDaysBack == 60

\* what one sync_video of the loop did
SyncResult(video_id, call) ==
    [video_id |-> video_id, ret |-> call.ret, fetched |-> call.fetched,
     published_date |-> call.published_date, written |-> call.written]

\* mutant: the loop ends at the first sync_video that returns False
RECURSIVE SyncAllStopOnFailure(_, _, _, _, _, _)
SyncAllStopOnFailure(vtbl, mtbl, now, ids, answers, results) ==
    IF ids = <<>>
    THEN [videos |-> vtbl, metrics |-> mtbl, results |-> results]
    ELSE LET call == SyncVideo(vtbl, mtbl, now, Head(ids), SyncDaysBack,
                               Head(answers)[1], Head(answers)[2])
             done == Append(results, SyncResult(Head(ids), call))
         IN  IF ~call.ret
             THEN [videos |-> call.videos, metrics |-> call.metrics,
                   results |-> done]
             ELSE SyncAllStopOnFailure(call.videos, call.metrics, now, Tail(ids),
                                       Tail(answers), done)

\* for video_id in video_views.keys(): db.sync_video(video_id, days_back=60)
RECURSIVE SyncAll(_, _, _, _, _, _)
SyncAll(vtbl, mtbl, now, ids, answers, results) ==
    IF ids = <<>>
    THEN [videos |-> vtbl, metrics |-> mtbl, results |-> results]
    ELSE LET call == SyncVideo(vtbl, mtbl, now, Head(ids), SyncDaysBack,
                               Head(answers)[1], Head(answers)[2])
         IN  SyncAll(call.videos, call.metrics, now, Tail(ids), Tail(answers),
                     Append(results, SyncResult(Head(ids), call)))

(***************************************************************************)
(* get_search_keywords (the definition at line 599, which replaces the     *)
(* one at line 382).                                                       *)
(***************************************************************************)
Min(a, b) == IF a <= b THEN a ELSE b

\* keyword.strip(), on the keywords of the model
Strip(keyword) == IF keyword = " " THEN "" ELSE keyword

\* keyword and keyword != '(not provided)' and keyword.strip()
KeepKeyword(keyword) ==
    keyword # "" /\ keyword # "(not provided)" /\ Strip(keyword) # ""

\* the dict keywords built from resp['rows']
RECURSIVE KeywordsOf(_, _)
KeywordsOf(rows, keywords) ==
    IF rows = <<>> THEN keywords
    ELSE LET keyword == Head(rows)[1]
             views == Head(rows)[2]
         IN  KeywordsOf(Tail(rows),
                        IF KeepKeyword(keyword)
                        THEN [k \in (DOMAIN keywords) \cup {keyword} |->
                                 IF k = keyword THEN views ELSE keywords[k]]
                        ELSE keywords)

\* limits_to_try = [min(max_results, 25), 20, 10]
LimitsToTry(max_results) == <<Min(max_results, 25), 20, 10>>

\* the loop over limits_to_try from its i-th entry; answers[i] is what the
\* provider does with the i-th query.  An exception is raised on when the
\* limit equals the last entry of the list, and the outer handler then
\* returns {}
RECURSIVE TryLimits(_, _, _, _)
TryLimits(limits_to_try, i, answers, attempts) ==
    IF i > Len(limits_to_try)
    THEN [ret |-> EmptyResults, attempts |-> attempts, raised |-> FALSE]
    ELSE LET limit == limits_to_try[i]
             tried == Append(attempts, limit)
         IN  IF answers[i].status = "ok"
             THEN [ret |-> KeywordsOf(answers[i].rows, EmptyResults),
                   attempts |-> tried, raised |-> FALSE]
             ELSE IF limit = limits_to_try[Len(limits_to_try)]
             THEN [ret |-> EmptyResults, attempts |-> tried, raised |-> TRUE]
             ELSE TryLimits(limits_to_try, i + 1, answers, tried)

\* get_search_keywords(client, start_date, end_date, max_results)
GetSearchKeywords(max_results, has_client, answers) ==
    IF ~has_client
    THEN [ret |-> EmptyResults, attempts |-> <<>>, raised |-> FALSE]
    ELSE TryLimits(LimitsToTry(max_results), 1, answers, <<>>)

(***************************************************************************)
(* The connection of a store operation.                                    *)
(***************************************************************************)
\* what the storage does in one operation: every statement runs, or
\* sqlite3.connect raises, or a statement raises on the open connection
StorageOutcomes == {"ok", "connect_raises", "execute_raises"}

\* conn = sqlite3.connect(...); cursor.execute(...); conn.close(), with no
\* try/finally and no with-block: the connections open when the operation
\* has ended
ConnectionsAfter(open, storage) ==
    IF storage = "execute_raises" THEN open + 1 ELSE open

\* store_daily_metrics when the statement of row k + 1 raises: the rows
\* that the loop has written on its connection by then
Pending(tbl, ms, k) == StoreDailyMetrics(tbl, SubSeq(ms, 1, k))

\* mutant: a connection in autocommit mode, where every statement is
\* persisted at once
PersistedAutocommit(tbl, pending, committed) == pending

\* table daily_metrics as stored: the writes of the connection after
\* conn.commit(), the table as it was when the commit is not reached
Persisted(tbl, pending, committed) == IF committed THEN pending ELSE tbl

(***************************************************************************)
(* The state machine.                                                      *)
(***************************************************************************)
\* the key (video_id, date, traffic_source) of a DailyMetric, date as stored
KeyOf(m) == <<m.video_id, IsoFormat(m.date), m.traffic_source>>

\* the history of writes after the list ms has been handed to the store;
\* pubs[i] is the publish date that ms[i] was computed against
RECURSIVE Written(_, _, _)
Written(hist, ms, pubs) ==
    IF ms = <<>> THEN hist
    ELSE Written([k \in (DOMAIN hist) \cup {KeyOf(Head(ms))} |->
                     IF k = KeyOf(Head(ms))
                     THEN [views |-> Head(ms).views, published |-> Head(pubs)]
                     ELSE hist[k]],
                 Tail(ms), Tail(pubs))

SameVideo(r, q) == r.video_id = q.video_id

SameKey(r, q) ==
    r.video_id = q.video_id /\ r.date = q.date /\ r.traffic_source = q.traffic_source

\* the sets of at most n rows of table videos that the PRIMARY KEY allows
RECURSIVE VideoRowSets(_, _)
VideoRowSets(rows, n) ==
    IF n = 0 THEN {{}}
    ELSE LET less == VideoRowSets(rows, n - 1)
         IN  less \cup {p[1] \cup {p[2]} : p \in
                 {p \in less \X rows : \A q \in p[1] : ~SameVideo(q, p[2])}}

\* the sets of at most n rows of table daily_metrics that UNIQUE allows
RECURSIVE MetricRowSets(_, _)
MetricRowSets(rows, n) ==
    IF n = 0 THEN {{}}
    ELSE LET less == MetricRowSets(rows, n - 1)
         IN  less \cup {p[1] \cup {p[2]} : p \in
                 {p \in less \X rows : \A q \in p[1] : ~SameKey(q, p[2])}}

\* the write history that a table of unique keys stands for
HistoryOf(tbl) ==
    [k \in {<<r.video_id, r.date, r.traffic_source>> : r \in Rows(tbl)} |->
        LET r == CHOOSE x \in Rows(tbl) : <<x.video_id, x.date, x.traffic_source>> = k
        IN  [views |-> r.views,
             published |-> ParseIso(r.date) - r.days_since_published]]

Init ==
    /\ videos = EmptyBag
    /\ metrics = EmptyBag
    /\ today = FirstDate
    /\ connections = 0
    /\ calls = 0
    /\ lastWrite = [k \in {} |-> 0]
    /\ lastOp = [kind |-> "init"]

\* store_video_info(video)
UpsertVideo(video) ==
    /\ calls < MaxCalls
    /\ calls' = calls + 1
    /\ videos' = StoreVideoInfo(videos, video)
    /\ metrics' = MetricsAfterStoreVideoInfo(metrics, video)
    /\ lastOp' = [kind |-> "store_video_info", video |-> video,
                  replaced |-> VideoConflicts(videos, VideoRow(video))]
    /\ connections' = ConnectionsAfter(connections, "ok")
    /\ UNCHANGED <<today, lastWrite>>

\* store_daily_metrics(ms)
UpsertDailyMetrics(ms) ==
    LET call == StoreDailyMetricsCall(videos, metrics, ms)
    IN  /\ calls < MaxCalls
        /\ calls' = calls + 1
        /\ metrics' = call.tbl
        /\ lastWrite' =
              IF call.raised THEN lastWrite
              ELSE Written(lastWrite, ms,
                           [i \in 1..Len(ms) |->
                               ms[i].date - ms[i].days_since_published])
        /\ lastOp' = [kind |-> "store_daily_metrics", metrics |-> ms,
                      raised |-> call.raised]
        /\ connections' = ConnectionsAfter(connections, "ok")
        /\ UNCHANGED <<videos, today>>

\* analyze_first_week_performance(ids, traffic_source)
Analyze(ids, traffic_source) ==
    /\ calls < MaxCalls
    /\ calls' = calls + 1
    /\ lastOp' = [kind |-> "analyze_first_week_performance",
                  video_ids |-> ids, traffic_source |-> traffic_source,
                  ret |-> AnalyzeFirstWeekPerformance(videos, metrics, ids,
                                                      traffic_source)]
    /\ connections' = ConnectionsAfter(connections, "ok")
    /\ UNCHANGED <<videos, metrics, today, lastWrite>>

\* sync_video(video_id, days_back) with what the two providers answer
Sync(video_id, days_back, meta, analytics) ==
    LET call == SyncVideo(videos, metrics, today, video_id, days_back, meta,
                          analytics)
    IN  /\ calls < MaxCalls
        /\ calls' = calls + 1
        /\ videos' = call.videos
        /\ metrics' = call.metrics
        /\ lastWrite' =
              Written(lastWrite, call.written,
                      [i \in 1..Len(call.written) |-> call.published_date])
        /\ lastOp' = [kind |-> "sync_video", video_id |-> video_id,
                      days_back |-> days_back, meta |-> meta,
                      analytics |-> analytics, today |-> today,
                      ret |-> call.ret,
                      fetched |-> call.fetched, queried |-> call.queried,
                      start_date |-> call.start_date,
                      end_date |-> call.end_date, written |-> call.written]
        /\ connections' = ConnectionsAfter(connections, "ok")
        /\ UNCHANGED today

\* the history of writes after the syncs of a batch
RECURSIVE WrittenAll(_, _)
WrittenAll(hist, results) ==
    IF results = <<>> THEN hist
    ELSE WrittenAll(Written(hist, Head(results).written,
                            [i \in 1..Len(Head(results).written) |->
                                Head(results).published_date]),
                    Tail(results))

\* main --sync recent, with the video ids of the channel report and what
\* the two providers answer for each of them
SyncRecent(ids, answers) ==
    LET batch == SyncAll(videos, metrics, today, ids, answers, <<>>)
    IN  /\ calls + Len(ids) <= MaxCalls
        /\ calls' = calls + Len(ids)
        /\ videos' = batch.videos
        /\ metrics' = batch.metrics
        /\ lastWrite' = WrittenAll(lastWrite, batch.results)
        /\ lastOp' = [kind |-> "sync_recent", ids |-> ids, answers |-> answers,
                      today |-> today, results |-> batch.results]
        /\ connections' = ConnectionsAfter(connections, "ok")
        /\ UNCHANGED today

\* get_recent_videos(limit)
GetRecent(limit) ==
    /\ calls < MaxCalls
    /\ calls' = calls + 1
    /\ \E ret \in GetRecentVideos(videos, limit) :
          lastOp' = [kind |-> "get_recent_videos", limit |-> limit, ret |-> ret]
    /\ connections' = ConnectionsAfter(connections, "ok")
    /\ UNCHANGED <<videos, metrics, today, lastWrite>>

\* a store operation that ends in an exception of sqlite3: nothing is
\* committed, and close() is not reached
Raised(operation, storage) ==
    /\ calls < MaxCalls
    /\ calls' = calls + 1
    /\ connections' = ConnectionsAfter(connections, storage)
    /\ lastOp' = [kind |-> "raised", operation |-> operation,
                  storage |-> storage]
    /\ UNCHANGED <<videos, metrics, today, lastWrite>>

\* sync_video that ends in an exception of sqlite3 in the published_date
\* lookup of fetch_daily_analytics_from_youtube: the Video is stored by then
SyncLookupRaised(video_id, meta, analytics, storage) ==
    LET video_info == FetchVideoData(video_id, meta)
    IN  /\ calls < MaxCalls
        /\ video_info.status = "ok"
        /\ analytics.status # "no_client"
        /\ calls' = calls + 1
        /\ videos' = StoreVideoInfo(videos, video_info)
        /\ metrics' = MetricsAfterStoreVideoInfo(metrics, video_info)
        /\ connections' = ConnectionsAfter(connections, storage)
        /\ lastOp' = [kind |-> "raised",
                      operation |-> "fetch_daily_analytics_from_youtube",
                      storage |-> storage]
        /\ UNCHANGED <<today, lastWrite>>

\* store_video_info(video) on a storage that may fail
StoreVideoInfoOn(video, storage) ==
    \/ storage = "ok" /\ UpsertVideo(video)
    \/ storage # "ok" /\ Raised("store_video_info", storage)

\* store_daily_metrics(ms) in which the statement of row k + 1 raises: the
\* exception leaves the function before conn.commit() and conn.close()
StoreDailyMetricsPartway(ms, k) ==
    /\ calls < MaxCalls
    /\ calls' = calls + 1
    /\ metrics' = Persisted(metrics, Pending(metrics, ms, k), FALSE)
    /\ connections' = ConnectionsAfter(connections, "execute_raises")
    /\ lastOp' = [kind |-> "raised", operation |-> "store_daily_metrics",
                  storage |-> "execute_raises", metrics |-> ms, executed |-> k]
    /\ UNCHANGED <<videos, today, lastWrite>>

\* store_daily_metrics(ms) on a storage that may fail
StoreDailyMetricsOn(ms, storage) ==
    \/ storage = "ok" /\ UpsertDailyMetrics(ms)
    \/ storage = "connect_raises" /\ Raised("store_daily_metrics", storage)
    \/ /\ storage = "execute_raises"
       /\ \E k \in 0..(Len(ms) - 1) : StoreDailyMetricsPartway(ms, k)

\* get_recent_videos(limit) on a storage that may fail
GetRecentOn(limit, storage) ==
    \/ storage = "ok" /\ GetRecent(limit)
    \/ storage # "ok" /\ Raised("get_recent_videos", storage)

\* analyze_first_week_performance(ids, traffic_source) on a storage that
\* may fail
AnalyzeOn(ids, traffic_source, storage) ==
    \/ storage = "ok" /\ Analyze(ids, traffic_source)
    \/ storage # "ok" /\ Raised("analyze_first_week_performance", storage)

\* sync_video(video_id, days_back) on a storage that may fail in the
\* published_date lookup
SyncOn(video_id, days_back, meta, analytics, storage) ==
    \/ storage = "ok" /\ Sync(video_id, days_back, meta, analytics)
    \/ storage # "ok" /\ SyncLookupRaised(video_id, meta, analytics, storage)

\* get_search_keywords(..., max_results) with what the provider does with
\* each query
SearchKeywords(max_results, has_client, answers) ==
    LET call == GetSearchKeywords(max_results, has_client, answers)
    IN  /\ calls < MaxCalls
        /\ calls' = calls + 1
        /\ lastOp' = [kind |-> "get_search_keywords",
                      max_results |-> max_results, has_client |-> has_client,
                      answers |-> answers, attempts |-> call.attempts,
                      raised |-> call.raised, ret |-> call.ret]
        /\ UNCHANGED <<videos, metrics, today, connections, lastWrite>>

\* midnight, between two calls
NextDay ==
    /\ calls < MaxCalls
    /\ \E d \in Dates : d > today
    /\ today' = CHOOSE d \in Dates : d > today /\ \A e \in Dates : e > today => d <= e
    /\ UNCHANGED <<videos, metrics, connections, calls, lastWrite, lastOp>>

(***************************************************************************)
(* Spec: runs of at most MaxCalls calls on a new database.                 *)
(***************************************************************************)
RunVideos ==
    {v \in VideoInfo : \/ v.title = "T1" /\ v.published_date \in {Day1, Day2}
                       \/ v.title = "T2" /\ v.published_date = Day1}

RunMetrics ==
    [video_id : VideoIds, date : {Day1, Day2}, days_since_published : {0},
     traffic_source : {"BROWSE"}, views : ViewCounts]

\* no row, one row, or the same key written twice in one list
RunLists ==
    {<<>>} \cup {<<m>> : m \in RunMetrics}
    \cup {<<m, [m EXCEPT !.views = 2]>> : m \in {x \in RunMetrics : x.views = 1}}

RunMeta ==
    [status : {"no_items"}]
    \cup [status : {"ok"}, title : {"T1"}, published_date : {Day1, Day2},
          channel_id : ChannelIds]

RunAnalytics ==
    [status : {"ok"},
     data : {{}, {[day |-> Day1, traffic_source |-> "BROWSE", views |-> 1]},
             {[day |-> Day2, traffic_source |-> "BROWSE", views |-> 2]}}]

Next ==
    \/ \E video \in RunVideos : UpsertVideo(video)
    \/ \E ms \in RunLists : UpsertDailyMetrics(ms)
    \/ \E video_id \in VideoIds, meta \in RunMeta, analytics \in RunAnalytics :
          Sync(video_id, 60, meta, analytics)
    \/ \E src \in Sources : Analyze(<<"A", "B">>, src)
    \/ NextDay

Spec == Init /\ [][Next]_vars

(***************************************************************************)
(* SyncSpec: runs in which every write goes through sync_video.            *)
(***************************************************************************)
SyncMeta ==
    [status : MetaFailures]
    \cup [status : {"ok"}, title : {"T1"}, published_date : Dates,
          channel_id : ChannelIds]

\* the analytics provider holds no row, one row, or a row on each of the
\* first two days
SyncData ==
    {{}}
    \cup {{r} : r \in [day : Dates, traffic_source : {"BROWSE"}, views : ViewCounts]}
    \cup {{[day |-> Day1, traffic_source |-> "BROWSE", views |-> 1],
           [day |-> Day2, traffic_source |-> "BROWSE", views |-> 2]}}

SyncAnalytics ==
    [status : {"no_client", "error"}, data : {{}}]
    \cup [status : {"ok"}, data : SyncData]

\* what the two providers answer to one sync; when there is no metadata the
\* analytics provider holds one row, which must not be written
SyncAnswers ==
    {a \in SyncMeta \X SyncAnalytics :
        \/ a[1].status = "ok"
        \/ a[2] = [status |-> "ok",
                   data |-> {[day |-> Day1, traffic_source |-> "BROWSE",
                              views |-> 1]}]}

SyncNext ==
    \/ \E video_id \in {"A"}, days_back \in DaysBackInputs, a \in SyncAnswers :
          Sync(video_id, days_back, a[1], a[2])
    \/ NextDay

SyncSpec == Init /\ [][SyncNext]_vars

(***************************************************************************)
(* AnalyzeSpec: one call of analyze_first_week_performance on any store    *)
(* state of at most MaxRows daily_metrics rows.                            *)
(***************************************************************************)
AnalyzeVideos ==
    {v \in VideoInfo : v.title = "T1" /\ v.published_date = Day1}

\* the rows of A, and the rows of B on the first date
AnalyzeMetrics ==
    {m \in DailyMetricInputs : m.video_id = "A" \/ m.date = Day1}

AnalyzeIds == {<<>>, <<"A">>, <<"B">>, <<"A", "B">>, <<"B", "A">>, <<"A", "A">>}

AnalyzeInit ==
    /\ videos \in {SetToBag(t) :
                     t \in VideoRowSets({VideoRow(v) : v \in AnalyzeVideos}, 2)}
    /\ metrics \in {SetToBag(t) :
                     t \in MetricRowSets({MetricRow(m) : m \in AnalyzeMetrics},
                                         MaxRows)}
    /\ today = FirstDate
    /\ connections = 0
    /\ calls = MaxCalls - 1
    /\ lastWrite = HistoryOf(metrics)
    /\ lastOp = [kind |-> "init"]

AnalyzeNext ==
    \E ids \in AnalyzeIds, src \in Sources : Analyze(ids, src)

AnalyzeSpec == AnalyzeInit /\ [][AnalyzeNext]_vars

(***************************************************************************)
(* RecentSpec: one call of get_recent_videos on any state of table videos  *)
(* with up to three videos.                                                *)
(***************************************************************************)
RecentIds == {"A", "B", "C"}

RecentVideos ==
    [video_id : RecentIds, title : {"T1"}, published_date : Dates,
     channel_id : ChannelIds]

RecentLimits == {-1, 0, 1, 2, 4}

RecentInit ==
    /\ videos \in {SetToBag(t) :
                     t \in VideoRowSets({VideoRow(v) : v \in RecentVideos},
                                        Cardinality(RecentIds))}
    /\ metrics = EmptyBag
    /\ today = FirstDate
    /\ connections = 0
    /\ calls = MaxCalls - 1
    /\ lastWrite = HistoryOf(metrics)
    /\ lastOp = [kind |-> "init"]

RecentNext ==
    \E limit \in RecentLimits : GetRecent(limit)

RecentSpec == RecentInit /\ [][RecentNext]_vars

(***************************************************************************)
(* BatchSpec: runs of main --sync recent on a new database.                *)
(***************************************************************************)
\* the keys of video_views: one or two video ids, none twice
BatchIds == {<<"A">>, <<"B">>, <<"A", "B">>, <<"B", "A">>}

BatchMeta ==
    [status : {"error", "no_items"}]
    \cup [status : {"ok"}, title : {"T1"}, published_date : {Day1},
          channel_id : ChannelIds]

BatchAnalytics ==
    [status : {"error"}, data : {{}}]
    \cup [status : {"ok"},
          data : {{}, {[day |-> Day1, traffic_source |-> "BROWSE", views |-> 1]}}]

\* when there is no metadata the analytics provider holds one row, which
\* must not be written
BatchAnswers ==
    {a \in BatchMeta \X BatchAnalytics :
        \/ a[1].status = "ok"
        \/ a[2] = [status |-> "ok",
                   data |-> {[day |-> Day1, traffic_source |-> "BROWSE",
                              views |-> 1]}]}

BatchNext ==
    \/ \E ids \in BatchIds : \E answers \in [1..Len(ids) -> BatchAnswers] :
          SyncRecent(ids, answers)
    \/ NextDay

BatchSpec == Init /\ [][BatchNext]_vars

(***************************************************************************)
(* StorageSpec: runs on a new database whose storage may fail.             *)
(***************************************************************************)
StorageVideos == {v \in RunVideos : v.video_id = "A"}

StorageLists == {ms \in RunLists : \A i \in 1..Len(ms) : ms[i].video_id = "A"}

StorageLimits == {-1, 1}

StorageNext ==
    \/ \E video \in StorageVideos, storage \in StorageOutcomes :
          StoreVideoInfoOn(video, storage)
    \/ \E ms \in StorageLists, storage \in StorageOutcomes :
          StoreDailyMetricsOn(ms, storage)
    \/ \E limit \in StorageLimits, storage \in StorageOutcomes :
          GetRecentOn(limit, storage)
    \/ \E src \in Sources, storage \in StorageOutcomes :
          AnalyzeOn(<<"A">>, src, storage)
    \/ \E meta \in RunMeta, analytics \in RunAnalytics,
          storage \in StorageOutcomes :
          SyncOn("A", SyncDaysBack, meta, analytics, storage)

StorageSpec == Init /\ [][StorageNext]_vars

(***************************************************************************)
(* KeywordsSpec: one call of get_search_keywords.                          *)
(***************************************************************************)
MaxResultsInputs == {1, 10, 20, 25, 30}

\* a query raises, or answers with rows [keyword, views]
KeywordAnswers ==
    {[status |-> "raise"],
     [status |-> "ok", rows |-> <<>>],
     [status |-> "ok", rows |-> <<<<"tla", 3>>>>],
     [status |-> "ok",
      rows |-> <<<<"(not provided)", 5>>, <<"sany", 2>>, <<" ", 1>>>>]}

KeywordsInit ==
    /\ videos = EmptyBag
    /\ metrics = EmptyBag
    /\ today = FirstDate
    /\ connections = 0
    /\ calls = MaxCalls - 1
    /\ lastWrite = HistoryOf(metrics)
    /\ lastOp = [kind |-> "init"]

KeywordsNext ==
    \E max_results \in MaxResultsInputs, has_client \in BOOLEAN,
       answers \in [1..3 -> KeywordAnswers] :
        SearchKeywords(max_results, has_client, answers)

KeywordsSpec == KeywordsInit /\ [][KeywordsNext]_vars

(***************************************************************************)
(* SyncOnlySpec: runs of sync_video, for two videos, on a new database.    *)
(***************************************************************************)
SyncOnlyAnalytics == RunAnalytics \cup [status : {"error"}, data : {{}}]

SyncOnlyNext ==
    \/ \E video_id \in VideoIds, meta \in RunMeta,
          analytics \in SyncOnlyAnalytics :
          Sync(video_id, SyncDaysBack, meta, analytics)
    \/ NextDay

SyncOnlySpec == Init /\ [][SyncOnlyNext]_vars

(***************************************************************************)
(* Claims.                                                                 *)
(***************************************************************************)
Analyzed == lastOp.kind = "analyze_first_week_performance"

\* the stored rows of a video inside the first week with the asked source
FirstWeekRows(video_id, traffic_source) ==
    {r \in Rows(metrics) : /\ r.video_id = video_id
                           /\ r.days_since_published >= 0
                           /\ r.days_since_published <= 6
                           /\ r.traffic_source = traffic_source}

RECURSIVE TotalViews(_)
TotalViews(rows) ==
    IF rows = {} THEN 0
    ELSE LET r == CHOOSE x \in rows : TRUE
         IN  r.views * metrics[r] + TotalViews(rows \ {r})

\* C1: for every video_id in the result of analyze_first_week_performance,
\* first_week_views is the sum of views over exactly the stored rows of that
\* video with 0 <= days_since_published <= 6 and the asked traffic source
C1_FirstWeekSum ==
    Analyzed =>
        \A video_id \in DOMAIN lastOp.ret :
            lastOp.ret[video_id].first_week_views =
                TotalViews(FirstWeekRows(video_id, lastOp.traffic_source))

\* C1 witness: A has a row inside the window and a later row outside it,
\* both with the asked source, and only the first is counted
C1_Witness ==
    /\ Analyzed
    /\ "A" \in DOMAIN lastOp.ret
    /\ \E r, q \in Rows(metrics) :
          /\ r.video_id = "A" /\ q.video_id = "A"
          /\ r.traffic_source = lastOp.traffic_source
          /\ q.traffic_source = lastOp.traffic_source
          /\ r.days_since_published = 6
          /\ q.days_since_published = 7
          /\ lastOp.ret["A"].first_week_views = r.views

\* C2: a requested video_id without any stored row in the first-week window
\* with the asked source is not in the result
C2_OmittedNotZero ==
    Analyzed =>
        \A i \in 1..Len(lastOp.video_ids) :
            FirstWeekRows(lastOp.video_ids[i], lastOp.traffic_source) = {}
                => lastOp.video_ids[i] \notin DOMAIN lastOp.ret

\* C2 witness: A is stored and was asked for, has no matching row, and is
\* left out while B is reported
C2_Witness ==
    /\ Analyzed
    /\ lastOp.video_ids = <<"A", "B">>
    /\ \E v \in Rows(videos) : v.video_id = "A"
    /\ FirstWeekRows("A", lastOp.traffic_source) = {}
    /\ DOMAIN lastOp.ret = {"B"}

Stored == lastOp.kind = "store_daily_metrics"

RowKey(r) == <<r.video_id, r.date, r.traffic_source>>

\* C3: for every key (video_id, date, traffic_source) the store holds at
\* most one row, and it carries the views of the last write to that key
C3_LastWriteWins ==
    /\ \A r \in Rows(metrics) :
          /\ metrics[r] = 1
          /\ \A q \in Rows(metrics) : RowKey(q) = RowKey(r) => q = r
    /\ \A k \in DOMAIN lastWrite :
          \E r \in Rows(metrics) : RowKey(r) = k /\ r.views = lastWrite[k].views

\* C3 witness: one list wrote the same key twice, first 1 view then 2, and
\* the store holds the row with 2 views
C3_Witness ==
    /\ Stored
    /\ Len(lastOp.metrics) = 2
    /\ KeyOf(lastOp.metrics[1]) = KeyOf(lastOp.metrics[2])
    /\ lastOp.metrics[1].views = 1
    /\ lastOp.metrics[2].views = 2
    /\ MetricRow(lastOp.metrics[2]) \in Rows(metrics)
    /\ BagCardinality(metrics) = 2

Synced == lastOp.kind = "sync_video"

\* C4: after sync_video, the same call with the same answers of the
\* providers on the same day leaves both tables as they are
C4_SyncIdempotent ==
    (Synced /\ lastOp.today = today) =>
        LET again == SyncVideo(videos, metrics, today, lastOp.video_id,
                               lastOp.days_back, lastOp.meta, lastOp.analytics)
        IN  again.videos = videos /\ again.metrics = metrics

\* C4 witness: a sync that wrote a row
C4_Witness ==
    /\ Synced
    /\ lastOp.today = today
    /\ lastOp.ret
    /\ Len(lastOp.written) >= 1
    /\ MetricRow(lastOp.written[1]) \in Rows(metrics)

\* C5: a sync_video whose metadata fetch gives nothing returns False, does
\* not query the analytics provider and changes neither table
C5_NoMetadataNoWrite ==
    [][(calls' # calls /\ lastOp'.kind = "sync_video"
            /\ lastOp'.meta.status # "ok")
        => /\ ~lastOp'.ret
           /\ ~lastOp'.queried
           /\ videos' = videos
           /\ metrics' = metrics]_vars

\* C5 witness: a failed sync on a store that holds a video and a row
C5_Witness ==
    /\ Synced
    /\ lastOp.meta.status = "no_items"
    /\ ~lastOp.ret
    /\ Rows(videos) # {}
    /\ Rows(metrics) # {}

\* C6: every stored DailyMetric row has a Video row with its video_id
C6_Referential ==
    \A r \in Rows(metrics) : \E v \in Rows(videos) : v.video_id = r.video_id

\* C7: store_daily_metrics does not raise for a video_id without a Video
\* row, and the last row of the list for each key is stored
C7_OrphanRowStored ==
    Stored =>
        /\ ~lastOp.raised
        /\ \A i \in 1..Len(lastOp.metrics) :
              (\A j \in (i + 1)..Len(lastOp.metrics) :
                   KeyOf(lastOp.metrics[j]) # KeyOf(lastOp.metrics[i]))
              => MetricRow(lastOp.metrics[i]) \in Rows(metrics)

\* C7 witness: a row was stored for a video_id that has no Video row
C7_Witness ==
    /\ Stored
    /\ Len(lastOp.metrics) = 1
    /\ \A v \in Rows(videos) : v.video_id # lastOp.metrics[1].video_id
    /\ MetricRow(lastOp.metrics[1]) \in Rows(metrics)

\* C8 as stated: every stored DailyMetric whose Video row exists has
\* days_since_published = date - the published_date stored now
C8_DspOfStoredDate ==
    \A r \in Rows(metrics) : \A v \in Rows(videos) :
        v.video_id = r.video_id
            => r.days_since_published = ParseIso(r.date) - ParseIso(v.published_date)

\* C8 amended: every stored DailyMetric has days_since_published = date -
\* the published_date that the metadata provider gave in the sync that last
\* wrote the row
C8_DspOfDateAtWrite ==
    \A r \in Rows(metrics) :
        /\ RowKey(r) \in DOMAIN lastWrite
        /\ r.days_since_published = ParseIso(r.date) - lastWrite[RowKey(r)].published

\* C8 witness: a row written under an earlier published_date is still there
\* after a sync stored a later one
C8_Witness ==
    \E r \in Rows(metrics) : \E v \in Rows(videos) :
        /\ v.video_id = r.video_id
        /\ lastWrite[RowKey(r)].published # ParseIso(v.published_date)
        /\ r.days_since_published # ParseIso(r.date) - ParseIso(v.published_date)

\* C9: a sync_video that got metadata asks for the window from
\* max(published_date, today - days_back) to today
C9_Window ==
    (Synced /\ lastOp.fetched) =>
        /\ lastOp.end_date = lastOp.today
        /\ lastOp.start_date >= lastOp.meta.published_date
        /\ lastOp.start_date >= lastOp.today - lastOp.days_back
        /\ lastOp.start_date \in {lastOp.meta.published_date,
                                  lastOp.today - lastOp.days_back}

\* C9 witness: the video was published inside the last days_back days, and
\* the window starts on the publish date
C9_Witness ==
    /\ Synced
    /\ lastOp.fetched
    /\ lastOp.today - lastOp.days_back < lastOp.meta.published_date
    /\ lastOp.meta.published_date < lastOp.today
    /\ lastOp.start_date = lastOp.meta.published_date

\* C10: every DailyMetric that sync_video hands to the store has
\* days_since_published = date - published_date of the metadata of that sync
C10_DspOfThisSync ==
    Synced =>
        \A i \in 1..Len(lastOp.written) :
            /\ lastOp.written[i].days_since_published =
                   lastOp.written[i].date - lastOp.meta.published_date
            /\ MetricRow(lastOp.written[i]) \in Rows(metrics)

\* C10 witness: a row dated on the publish date was stored with 0
C10_Witness ==
    /\ Synced
    /\ \E i \in 1..Len(lastOp.written) :
          /\ lastOp.written[i].date = lastOp.meta.published_date
          /\ lastOp.written[i].days_since_published = 0
          /\ MetricRow(lastOp.written[i]) \in Rows(metrics)

\* C11: every DailyMetric that sync_video hands to the store has
\* days_since_published >= 0 (the provider answers with the rows of the
\* requested window only)
C11_NoNegativeOffset ==
    Synced =>
        \A i \in 1..Len(lastOp.written) :
            /\ lastOp.written[i].days_since_published >= 0
            /\ MetricRow(lastOp.written[i]) \in Rows(metrics)

\* C11 witness: the provider holds a row of the day before the publish date,
\* inside the last days_back days; the window starts on the publish date and
\* only the row of the publish date is written, with 0
C11_Witness ==
    /\ Synced
    /\ lastOp.fetched
    /\ lastOp.analytics.status = "ok"
    /\ \E r \in lastOp.analytics.data :
          /\ r.day < lastOp.meta.published_date
          /\ r.day >= lastOp.today - lastOp.days_back
    /\ Len(lastOp.written) = 1
    /\ lastOp.written[1].date = lastOp.meta.published_date
    /\ lastOp.written[1].days_since_published = 0

Listed == lastOp.kind = "get_recent_videos"

\* C12 as stated: get_recent_videos(limit) returns at most limit video_ids,
\* each the id of a stored Video, none twice, for every integer limit
C12_AtMostLimit ==
    Listed =>
        /\ Len(lastOp.ret) <= lastOp.limit
        /\ \A i \in 1..Len(lastOp.ret) :
              \E v \in Rows(videos) : v.video_id = lastOp.ret[i]
        /\ \A i, j \in 1..Len(lastOp.ret) :
              i # j => lastOp.ret[i] # lastOp.ret[j]

\* C12 amended: for limit >= 0 get_recent_videos(limit) returns at most limit
\* video_ids, for a negative limit it returns the ids of all stored Videos;
\* each returned id is the id of a stored Video and none comes twice
C12_AtMostLimitFromZero ==
    Listed =>
        /\ lastOp.limit >= 0 => Len(lastOp.ret) <= lastOp.limit
        /\ lastOp.limit < 0 => Len(lastOp.ret) = Cardinality(Rows(videos))
        /\ \A i \in 1..Len(lastOp.ret) :
              \E v \in Rows(videos) : v.video_id = lastOp.ret[i]
        /\ \A i, j \in 1..Len(lastOp.ret) :
              i # j => lastOp.ret[i] # lastOp.ret[j]

\* C12 witness: three videos are stored and a call with limit 2 returned two
C12_Witness ==
    /\ Listed
    /\ Cardinality(Rows(videos)) = 3
    /\ lastOp.limit = 2
    /\ Len(lastOp.ret) = 2

\* the published_date of a stored video, as a date
PublishedOf(video_id) ==
    ParseIso((CHOOSE v \in Rows(videos) : v.video_id = video_id).published_date)

LeftOut == {v.video_id : v \in Rows(videos)} \ {lastOp.ret[i] : i \in 1..Len(lastOp.ret)}

\* C13 as stated: each returned video is published strictly later than the
\* next one, and no video left out is published later than a returned one
C13_StrictlyDescending ==
    Listed =>
        /\ \A i \in 1..(Len(lastOp.ret) - 1) :
              PublishedOf(lastOp.ret[i]) > PublishedOf(lastOp.ret[i + 1])
        /\ \A x \in LeftOut : \A i \in 1..Len(lastOp.ret) :
              PublishedOf(x) <= PublishedOf(lastOp.ret[i])

\* C13 amended: each returned video is published on the day of the next
\* one or later, and no video left out is published later than a returned
\* one
C13_Descending ==
    Listed =>
        /\ \A i \in 1..(Len(lastOp.ret) - 1) :
              PublishedOf(lastOp.ret[i]) >= PublishedOf(lastOp.ret[i + 1])
        /\ \A x \in LeftOut : \A i \in 1..Len(lastOp.ret) :
              PublishedOf(x) <= PublishedOf(lastOp.ret[i])

\* C13 witness: two videos of the same day are returned, one after the
\* other, ahead of an older one, and an older video still is left out
C13_Witness ==
    /\ Listed
    /\ Len(lastOp.ret) = 2
    /\ PublishedOf(lastOp.ret[1]) = PublishedOf(lastOp.ret[2])
    /\ \E x \in LeftOut : PublishedOf(x) < PublishedOf(lastOp.ret[2])

\* C14: store_video_info leaves exactly one Video row for the video_id, the
\* one handed in; the rows of other ids are as before; storing the same
\* input again changes nothing
C14_UpsertReplaces ==
    [][(calls' # calls /\ lastOp'.kind = "store_video_info")
        => LET row == VideoRow(lastOp'.video)
           IN  /\ videos'[row] = 1
               /\ \A r \in Rows(videos') : r.video_id = row.video_id => r = row
               /\ \A r \in Rows(videos) :
                     r.video_id # row.video_id
                         => r \in Rows(videos') /\ videos'[r] = videos[r]
               /\ Rows(videos') \subseteq Rows(videos) \cup {row}
               /\ StoreVideoInfo(videos', lastOp'.video) = videos']_vars

\* C14 witness: a Video stored with title T1 was stored again with title T2,
\* and the one row of that id has title T2
C14_Witness ==
    /\ lastOp.kind = "store_video_info"
    /\ lastOp.video.title = "T2"
    /\ \E r \in lastOp.replaced : r.title = "T1"
    /\ \A r \in Rows(videos) :
          r.video_id = lastOp.video.video_id => r.title = "T2" /\ videos[r] = 1

\* C15 as stated: the published_date of a stored Video never changes
C15_PublishedImmutable ==
    [][\A r \in Rows(videos) : \A q \in Rows(videos') :
          r.video_id = q.video_id => r.published_date = q.published_date]_vars

\* the call of this step stores a Video of this video_id, and the date it
\* carries
StoresVideo(op, video_id) ==
    \/ op.kind = "store_video_info" /\ op.video.video_id = video_id
    \/ op.kind = "sync_video" /\ op.fetched /\ op.video_id = video_id

CarriedDate(op) ==
    IF op.kind = "store_video_info" THEN op.video.published_date
    ELSE op.meta.published_date

\* C15 amended: the published_date of a stored Video changes only in a
\* store_video_info or a sync_video with metadata for that video_id, and
\* becomes the date that call carries
C15_PublishedFollowsLastStore ==
    [][\A r \in Rows(videos) : \A q \in Rows(videos') :
          (r.video_id = q.video_id /\ r.published_date # q.published_date)
              => /\ calls' # calls
                 /\ StoresVideo(lastOp', q.video_id)
                 /\ q.published_date = IsoFormat(CarriedDate(lastOp'))]_vars

\* C15 witness: a Video was stored again with another published_date, and
\* the row carries the new date
C15_Witness ==
    /\ lastOp.kind = "store_video_info"
    /\ \E r \in lastOp.replaced :
          r.published_date # IsoFormat(lastOp.video.published_date)
    /\ \E q \in Rows(videos) :
          /\ q.video_id = lastOp.video.video_id
          /\ q.published_date = IsoFormat(lastOp.video.published_date)

\* C16: a sync_video in which a provider call failed (no client or an
\* exception, in the metadata fetch or in the analytics fetch) returns False
C16_ProviderFailureFails ==
    Synced =>
        ((\/ lastOp.meta.status \in {"no_client", "error"}
          \/ /\ lastOp.meta.status = "ok"
             /\ lastOp.analytics.status \in {"no_client", "error"})
            => ~lastOp.ret)

\* the fetches of the i-th video of the batch did not all succeed
FetchFailed(op, i) ==
    op.answers[i][1].status # "ok" \/ op.answers[i][2].status # "ok"

\* C17: in main --sync recent, sync_video is called for every video id
\* whatever the earlier ones returned; a video whose fetch failed gets no
\* daily_metrics row written; a video after a failed one whose fetches
\* succeed is stored with its metadata and its rows
C17_BatchGoesOn ==
    [][(calls' # calls /\ lastOp'.kind = "sync_recent")
        => LET op == lastOp'
           IN  /\ Len(op.results) = Len(op.ids)
               /\ \A i \in 1..Len(op.ids) :
                     /\ op.results[i].video_id = op.ids[i]
                     /\ FetchFailed(op, i) =>
                            /\ op.results[i].written = <<>>
                            /\ {r \in Rows(metrics') : r.video_id = op.ids[i]}
                                   = {r \in Rows(metrics) : r.video_id = op.ids[i]}
                            /\ \A r \in Rows(metrics) :
                                   r.video_id = op.ids[i] => metrics'[r] = metrics[r]
                     /\ ~FetchFailed(op, i) =>
                            /\ op.results[i].ret
                            /\ \E v \in Rows(videos') :
                                   /\ v.video_id = op.ids[i]
                                   /\ v.title = op.answers[i][1].title
                                   /\ v.published_date =
                                          IsoFormat(op.answers[i][1].published_date)
                            /\ \A k \in 1..Len(op.results[i].written) :
                                   MetricRow(op.results[i].written[k]) \in Rows(metrics')]_vars

\* C17 witness: the metadata fetch of the first video failed, the second
\* video was synced after it and its Video and its row are stored, and
\* nothing is stored for the first
C17_Witness ==
    /\ lastOp.kind = "sync_recent"
    /\ Len(lastOp.ids) = 2
    /\ lastOp.answers[1][1].status = "error"
    /\ ~lastOp.results[1].ret
    /\ ~FetchFailed(lastOp, 2)
    /\ lastOp.results[2].ret
    /\ Len(lastOp.results[2].written) = 1
    /\ MetricRow(lastOp.results[2].written[1]) \in Rows(metrics)
    /\ \A r \in Rows(metrics) : r.video_id = lastOp.ids[2]
    /\ \A v \in Rows(videos) : v.video_id = lastOp.ids[2]

\* the analytics provider was asked and answered with zero rows
ZeroRows(op) ==
    /\ op.kind = "sync_video"
    /\ op.meta.status = "ok"
    /\ op.analytics.status = "ok"
    /\ op.queried
    /\ ProviderQuery(op.analytics.data, IsoFormat(op.start_date),
                     IsoFormat(op.end_date)) = <<>>

\* C18: a sync_video whose analytics provider answers with zero rows returns
\* True, stores the Video with the metadata fetched, and leaves table
\* daily_metrics as it is
C18_ZeroRowsSucceeds ==
    [][(calls' # calls /\ ZeroRows(lastOp'))
        => /\ lastOp'.ret
           /\ videos'[VideoRow([video_id |-> lastOp'.video_id,
                                 title |-> lastOp'.meta.title,
                                 published_date |-> lastOp'.meta.published_date,
                                 channel_id |-> lastOp'.meta.channel_id])] = 1
           /\ \A v \in Rows(videos') :
                 v.video_id = lastOp'.video_id
                     => v.published_date = IsoFormat(lastOp'.meta.published_date)
           /\ metrics' = metrics]_vars

\* C18 witness: a store that holds a row already, and a sync whose provider
\* answered with zero rows and with another published_date than before
C18_Witness ==
    /\ ZeroRows(lastOp)
    /\ lastOp.ret
    /\ Rows(metrics) # {}
    /\ \E r \in Rows(metrics) :
          ParseIso(r.date) - r.days_since_published # lastOp.meta.published_date

StoredVideoIds(tbl) == {v.video_id : v \in Rows(tbl)}

StoredKeys(tbl) == {RowKey(r) : r \in Rows(tbl)}

\* C19: no step takes a video_id out of table videos or a key
\* (video_id, date, traffic_source) out of table daily_metrics
C19_NothingDeleted ==
    [][/\ StoredVideoIds(videos) \subseteq StoredVideoIds(videos')
       /\ StoredKeys(metrics) \subseteq StoredKeys(metrics')]_vars

\* C19 witness: store_daily_metrics wrote a row of a video that had a row
\* of another date, and both keys are stored
C19_Witness ==
    /\ Stored
    /\ Len(lastOp.metrics) = 1
    /\ KeyOf(lastOp.metrics[1]) \in StoredKeys(metrics)
    /\ \E r \in Rows(metrics) :
          /\ r.video_id = lastOp.metrics[1].video_id
          /\ r.date # IsoFormat(lastOp.metrics[1].date)

\* C20: when a store operation has ended, also in an exception, no
\* connection that it opened is open
C20_ConnectionsReleased == connections = 0

\* C21: store_video_info leaves table daily_metrics as it is, also when it
\* changes the published_date of the video
C21_UpsertVideoKeepsMetrics ==
    [][(calls' # calls /\ lastOp'.kind = "store_video_info")
        => metrics' = metrics]_vars

\* C21 witness: store_video_info changed the published_date of a video that
\* has a row, and the row keeps the days_since_published of the old date
C21_Witness ==
    /\ lastOp.kind = "store_video_info"
    /\ \E old \in lastOp.replaced : \E r \in Rows(metrics) :
          /\ r.video_id = lastOp.video.video_id
          /\ old.published_date # IsoFormat(lastOp.video.published_date)
          /\ r.days_since_published = ParseIso(r.date) - ParseIso(old.published_date)
          /\ r.days_since_published # ParseIso(r.date) - lastOp.video.published_date

Searched == lastOp.kind = "get_search_keywords" /\ lastOp.has_client

\* the queries of a call that the provider answered
Answered(op) == {i \in 1..3 : op.answers[i].status = "ok"}

\* C22: get_search_keywords queries with the limits min(max_results, 25), 20
\* and 10 in this order, goes on to the next limit when a query raises,
\* returns the keywords of the first query that is answered, and returns {}
\* only after a query with every limit has raised
C22_TriesEveryLimit ==
    Searched =>
        LET limits == <<Min(lastOp.max_results, 25), 20, 10>>
            n == Len(lastOp.attempts)
        IN  /\ n \in 1..3
            /\ \A i \in 1..n : lastOp.attempts[i] = limits[i]
            /\ \A i \in 1..(n - 1) : lastOp.answers[i].status = "raise"
            /\ Answered(lastOp) # {} =>
                  /\ n \in Answered(lastOp)
                  /\ lastOp.ret = KeywordsOf(lastOp.answers[n].rows, EmptyResults)
            /\ Answered(lastOp) = {} => n = 3 /\ lastOp.ret = EmptyResults

\* C23: in runs of sync_video only, every daily_metrics row has a videos
\* row of its video_id
C23_SyncReferential ==
    \A r \in Rows(metrics) : r.video_id \in StoredVideoIds(videos)

\* C23 witness: a sync wrote a row for one video while the other video has
\* a row of an earlier sync, and both videos are stored
C23_Witness ==
    /\ Synced
    /\ Len(lastOp.written) = 1
    /\ MetricRow(lastOp.written[1]) \in Rows(metrics)
    /\ \E r \in Rows(metrics) : r.video_id # lastOp.video_id
    /\ StoredVideoIds(videos) = VideoIds

\* C24: the window that sync_video hands to the analytics provider has
\* start_date <= end_date = today
C24_WindowWellFormed ==
    (Synced /\ lastOp.queried) =>
        /\ lastOp.end_date = lastOp.today
        /\ lastOp.start_date <= lastOp.end_date

\* C25: a store_daily_metrics that ends in a storage error leaves table
\* daily_metrics as it was before the call
C25_AllOrNothing ==
    [][(calls' # calls /\ lastOp'.kind = "raised"
            /\ lastOp'.operation = "store_daily_metrics")
        => metrics' = metrics]_vars

\* C25 witness: the first row of a list was written on the connection, the
\* statement of the second row raised, and the first row is not stored
C25_Witness ==
    /\ lastOp.kind = "raised"
    /\ lastOp.operation = "store_daily_metrics"
    /\ lastOp.storage = "execute_raises"
    /\ lastOp.executed = 1
    /\ Len(lastOp.metrics) = 2
    /\ MetricRow(lastOp.metrics[1]) \notin Rows(metrics)

====
